---- MODULE Spec2Model ----
(***************************************************************************)
(* Room game engine of the Pangkah server (src/server.js, the "v3" server  *)
(* of lines 923-1646): rooms, deal, play validation, processCard, round    *)
(* resolution, turn timer, bot turns, hand swap, rematch and leave.        *)
(*                                                                         *)
(* Indices are 0-based as in the source: seat i of a room is players[i+1]. *)
(* A handler is a function from a world record to a world record; an       *)
(* action applies the handler to the current world and commits the result. *)
(* Callbacks scheduled with setTimeout wait in the queue `timers`, kept in  *)
(* firing order with the time each still has to run, in ticks of 500 ms.   *)
(* Only the head fires, and time then jumps to its deadline; a command     *)
(* that schedules a callback arrives at any time up to that deadline.      *)
(* Handlers that `await` the profile store are split at the await.         *)
(***************************************************************************)
EXTENDS Integers, Sequences, FiniteSets, TLC

\* ------------------------------------------------------------------ bounds
NumSuits == 2          \* suits of the modelled deck (the source has 4)
NumRanks == 2          \* ranks per suit, the highest ones (the source has 13)
MaxGames == 2          \* games started per room (gameNumber is unbounded)
MaxBotCount == 2       \* largest botCount a createRoom names
MaxTimers == 3         \* callbacks pending at once
MaxAwaits == 1         \* handlers suspended at an await at once
MaxSide == 1           \* commands outside the normal flow of a game handled per run:
                       \* a rejected command, a swap command, a leave, a close

\* ------------------------------------------------------- program constants
MIN_PLAYERS == 2
MAX_PLAYERS == 10
ROUND_DELAY == 1500
BOT_DELAY == 1200
BOT_LEAD_DELAY == 2000
TURN_LIMIT == 15000
NEXT_DELAY == 500
SWAP_DELAY == 3000
REMATCH_DELAY == 1500
MAX_BOTS == 3
KingVal == 12

\* ------------------------------------------------------------------- cards
AllSuits == <<"Spades", "Hearts", "Diamonds", "Clubs">>
SuitSeq == SubSeq(AllSuits, 1, NumSuits)
Suits == {SuitSeq[i] : i \in 1..NumSuits}
LowVal == KingVal - NumRanks + 1
Vals == LowVal..KingVal
Card(s, v) == [suit |-> s, val |-> v]
KingOfSpades == Card("Spades", KingVal)
IsKS(c) == c.suit = "Spades" /\ c.val = KingVal

\* createDeck: suits in order, ranks ascending within a suit
createDeck ==
    [k \in 1..(NumSuits * NumRanks) |->
        Card(SuitSeq[((k - 1) \div NumRanks) + 1], LowVal + ((k - 1) % NumRanks))]
DeckSize == Len(createDeck)
Cards == {createDeck[k] : k \in 1..DeckSize}

\* ----------------------------------------------------------------- helpers
Range(s) == {s[i] : i \in 1..Len(s)}
InRange(s, i) == i >= 0 /\ i < Len(s)
RemoveAt(s, i) == SubSeq(s, 1, i - 1) \o SubSeq(s, i + 1, Len(s))
\* Array.prototype.findIndex, 0-based, -1 when absent
FindIndex(s, P(_)) ==
    IF \E i \in 1..Len(s) : P(s[i])
    THEN (CHOOSE i \in 1..Len(s) : P(s[i]) /\ \A j \in 1..(i - 1) : ~P(s[j])) - 1
    ELSE -1
Filter(s, P(_)) == SelectSeq(s, P)
Includes(s, x) == \E i \in 1..Len(s) : s[i] = x
RECURSIVE SumLen(_)
SumLen(hs) == IF hs = <<>> THEN 0 ELSE Len(Head(hs)) + SumLen(Tail(hs))

\* shuffle: Fisher-Yates from the last index down; js[i] is the index
\* Math.floor(Math.random() * (i + 1)) drawn in the iteration for index i
Draws(n) == {js \in [1..(n - 1) -> 0..(n - 1)] : \A i \in 1..(n - 1) : js[i] <= i}
RECURSIVE ShuffleFrom(_, _, _)
ShuffleFrom(a, i, js) ==
    IF i <= 0 THEN a
    ELSE ShuffleFrom([a EXCEPT ![i + 1] = a[js[i] + 1], ![js[i] + 1] = a[i + 1]], i - 1, js)
shuffle(a, js) == ShuffleFrom(a, Len(a) - 1, js)

\* --------------------------------------------------------------- identities
RoomIds == {"r1"}
Users == {"u1", "u2"}
Hosts == {"u1"}
BotIdOf ==
    [r1 |-> <<"r1_bot0", "r1_bot1", "r1_bot2">>, r2 |-> <<"r2_bot0", "r2_bot1", "r2_bot2">>]
BotId(rid, i) == BotIdOf[rid][i + 1]
NoUser == "none"
NoSuit == "null"
SeatLimits == {2}

NewPlayer(uid, bot) == [userID |-> uid, isBot |-> bot, hand |-> <<>>, rematchReady |-> FALSE]

NoRoom ==
    [exists |-> FALSE, maxPlayers |-> 0, players |-> <<>>, turn |-> 0, table |-> <<>>,
     currentSuit |-> NoSuit, isFirstMove |-> TRUE, discarded |-> <<>>, fateAces |-> <<>>,
     gameStarted |-> FALSE, resolving |-> FALSE, gameNumber |-> 0, finishOrder |-> <<>>]

NoMem == [discardedCards |-> <<>>, knownVoidSuits |-> {}, cardsPlayedThisGame |-> <<>>]

\* a pending setTimeout callback: `rem` is the time left, in ticks
Ticks(ms) == ms \div NEXT_DELAY
Timer(kind, rid, delay, pang, bot, idx) ==
    [kind |-> kind, rid |-> rid, rem |-> Ticks(delay), pang |-> pang, bot |-> bot, idx |-> idx]

VARIABLES
    rooms,      \* rooms[rid]: the room object; `exists` is cleared by `delete rooms[rid]`,
                \* after which only the closures that captured the object reach it
    used,       \* room ids that have been created
    timers,     \* pending setTimeout callbacks, in firing order
    mem,        \* roomAIMemory[rid]
    awaiting,   \* handlers suspended at an `await` of the profile store
    crashed,    \* a handler threw (TypeError): the process is gone
    side,       \* commands outside the normal flow handled so far (bounds the run)
    last        \* what the last handler sent to one socket: an errorMsg or a notification

vars == <<rooms, used, timers, mem, awaiting, crashed, side, last>>

World == [rooms |-> rooms, timers |-> timers, sched |-> <<>>, mem |-> mem, crashed |-> crashed]

\* the queue after `d` ticks have passed
Elapse(q, d) == [i \in 1..Len(q) |-> [q[i] EXCEPT !.rem = @ - d]]

\* the new callbacks take their places behind those due no later
RECURSIVE InsertAll(_, _)
InsertAll(q, new) ==
    IF new = <<>> THEN q
    ELSE LET e == Head(new)
             n == Cardinality({i \in 1..Len(q) : q[i].rem <= e.rem})
         IN InsertAll(SubSeq(q, 1, n) \o <<e>> \o SubSeq(q, n + 1, Len(q)), Tail(new))

\* the handler ran `d` ticks after the last callback fired
CommitAfter(w, d) ==
    /\ rooms' = w.rooms
    /\ mem' = w.mem
    /\ crashed' = w.crashed
    /\ timers' = InsertAll(Elapse(w.timers, d), w.sched)
    /\ Len(timers') <= MaxTimers

\* a command or a resumed await: it arrives at any time before the next callback is due
Commit(w) ==
    IF w.sched = <<>> \/ timers = <<>> THEN CommitAfter(w, 0)
    ELSE \E d \in 0..Head(timers).rem : CommitAfter(w, d)

Crash(w) == [w EXCEPT !.crashed = TRUE]
SetRoom(w, rid, r) == [w EXCEPT !.rooms[rid] = r]
Sched(w, t) == [w EXCEPT !.sched = Append(@, t)]

\* ------------------------------------------------------------------ timers
clearTimer(w, rid) ==
    LET keep(t) == ~(t.kind = "turn" /\ t.rid = rid)
    IN [w EXCEPT !.timers = SelectSeq(@, keep), !.sched = SelectSeq(@, keep)]

\* startTimer without the clearTimer it begins with
startTimerKeepsOld(w, rid) ==
    LET r == w.rooms[rid]
    IN IF ~r.exists \/ ~r.gameStarted THEN w
       ELSE IF InRange(r.players, r.turn) /\ r.players[r.turn + 1].isBot THEN w
       ELSE Sched(w, Timer("turn", rid, TURN_LIMIT, FALSE, NoUser, 0))

startTimer(w, rid) ==
    LET w1 == clearTimer(w, rid)
        r == w1.rooms[rid]
    IN IF ~r.exists \/ ~r.gameStarted THEN w1
       ELSE IF InRange(r.players, r.turn) /\ r.players[r.turn + 1].isBot THEN w1
       ELSE Sched(w1, Timer("turn", rid, TURN_LIMIT, FALSE, NoUser, 0))

botTurn(w, rid, leading) ==
    LET r == w.rooms[rid]
    IN IF ~r.exists \/ ~r.gameStarted THEN w
       ELSE IF ~InRange(r.players, r.turn) THEN w
       ELSE LET bot == r.players[r.turn + 1]
            IN IF ~bot.isBot \/ Len(bot.hand) = 0 THEN w
               ELSE Sched(w, Timer("bot", rid, IF leading THEN BOT_LEAD_DELAY ELSE BOT_DELAY,
                                   FALSE, bot.userID, 0))

\* ------------------------------------------------------------- processCard
RECURSIVE SkipEmpty(_, _, _)
SkipEmpty(players, next, att) ==
    IF Len(players[next + 1].hand) = 0 /\ att < Len(players)
    THEN SkipEmpty(players, (next + 1) % Len(players), att + 1)
    ELSE next

advancePlayer(w, rid) ==
    LET r == w.rooms[rid]
    IN IF ~r.exists THEN w
       ELSE LET next == SkipEmpty(r.players, (r.turn + 1) % Len(r.players), 0)
                w1 == SetRoom(w, rid, [r EXCEPT !.turn = next])
            IN IF r.players[next + 1].isBot THEN botTurn(w1, rid, FALSE) ELSE startTimer(w1, rid)

\* seats that hold cards or already have a card on the table
ActiveCount(players, table) ==
    Cardinality({i \in 0..(Len(players) - 1) :
        Len(players[i + 1].hand) > 0 \/ \E k \in 1..Len(table) : table[k].playerIdx = i})

\* the round counted complete only when every seat of the room has a card on the table
RoundCompleteAllSeats(players, table) == Len(table) >= Len(players)

RoundComplete(players, table) == Len(table) >= ActiveCount(players, table)

processCard(w, rid, idx, card) ==
    LET r0 == w.rooms[rid]
    IN IF ~r0.exists THEN w
       ELSE LET w1 == clearTimer(w, rid)
            IN IF ~InRange(r0.players, idx) THEN Crash(w1)
               ELSE
               LET p == r0.players[idx + 1]
                   ci == FindIndex(p.hand, LAMBDA c : c.suit = card.suit /\ c.val = card.val)
               IN IF ci = -1 THEN w1
                  ELSE
                  LET played == p.hand[ci + 1]
                      hand1 == RemoveAt(p.hand, ci + 1)
                      suit1 == IF Len(r0.table) = 0 THEN played.suit ELSE r0.currentSuit
                      table1 == Append(r0.table, [card |-> played, playerIdx |-> idx])
                      isPangkah == played.suit # suit1
                      fin1 == IF Len(hand1) = 0 /\ ~Includes(r0.finishOrder, p.userID)
                              THEN Append(r0.finishOrder, p.userID) ELSE r0.finishOrder
                      players1 == [r0.players EXCEPT ![idx + 1].hand = hand1]
                      r1 == [r0 EXCEPT !.players = players1, !.currentSuit = suit1,
                                       !.table = table1, !.isFirstMove = FALSE,
                                       !.finishOrder = fin1]
                      complete == RoundComplete(players1, table1)
                  IN IF isPangkah \/ complete
                     THEN Sched(SetRoom(w1, rid, [r1 EXCEPT !.resolving = TRUE]),
                                Timer("resolve", rid, ROUND_DELAY, isPangkah, NoUser, 0))
                     ELSE advancePlayer(SetRoom(w1, rid, r1), rid)

\* ------------------------------------------------------------ resolveRound
\* the seat of the highest card of the lead suit on the table, -1 when none
RECURSIVE WinScan(_, _, _, _, _)
WinScan(table, suit, k, high, winIdx) ==
    IF k > Len(table) THEN winIdx
    ELSE IF table[k].card.suit = suit /\ table[k].card.val > high
         THEN WinScan(table, suit, k + 1, table[k].card.val, table[k].playerIdx)
         ELSE WinScan(table, suit, k + 1, high, winIdx)

WinnerIdx(table, suit) == WinScan(table, suit, 1, -1, -1)

TableCards(table) == [k \in 1..Len(table) |-> table[k].card]

updateAIMemory(w, rid, room, isPangkah) ==
    LET m == w.mem[rid]
        played == m.cardsPlayedThisGame \o TableCards(room.table)
    IN IF isPangkah /\ room.currentSuit # NoSuit
       THEN [w EXCEPT !.mem[rid].cardsPlayedThisGame = played,
                      !.mem[rid].knownVoidSuits =
                m.knownVoidSuits \cup
                {<<room.table[k].playerIdx, room.currentSuit>> :
                    k \in {j \in 1..Len(room.table) : room.table[j].card.suit # room.currentSuit}}]
       ELSE [w EXCEPT !.mem[rid].cardsPlayedThisGame = played,
                      !.mem[rid].discardedCards = m.discardedCards \o TableCards(room.table)]

\* finishOrder after the forEach that records every seat with an empty hand
RECURSIVE RecordFinished(_, _, _)
RecordFinished(players, k, fin) ==
    IF k > Len(players) THEN fin
    ELSE RecordFinished(players, k + 1,
            IF Len(players[k].hand) = 0 /\ ~Includes(fin, players[k].userID)
            THEN Append(fin, players[k].userID) ELSE fin)

Survivors(players) == Filter(players, LAMBDA p : Len(p.hand) > 0)

BotsReady(players) ==
    [k \in 1..Len(players) |->
        IF players[k].isBot THEN [players[k] EXCEPT !.rematchReady = TRUE] ELSE players[k]]

\* the game-over branch shared by resolveRound and the two swap handlers
GameOver(w, rid, r, botsReady) ==
    LET surv == Survivors(r.players)
        fin == IF Len(surv) > 0 THEN Append(r.finishOrder, surv[1].userID) ELSE r.finishOrder
        w1 == clearTimer(w, rid)
    IN SetRoom(w1, rid, [r EXCEPT !.finishOrder = fin, !.gameStarted = FALSE,
                                   !.players = IF botsReady THEN BotsReady(@) ELSE @])

resolveRound(w, rid, isPangkah) ==
    LET r0 == w.rooms[rid]
    IN IF ~r0.exists THEN w
       ELSE
       LET scan == WinnerIdx(r0.table, r0.currentSuit)
       IN IF scan = -1 /\ Len(r0.table) = 0 THEN Crash(w)
          ELSE
          LET winIdx == IF scan = -1 THEN r0.table[1].playerIdx ELSE scan
          IN IF ~InRange(r0.players, winIdx)
             THEN LET wm == updateAIMemory(w, rid, r0, isPangkah)
                  IN IF isPangkah THEN Crash(wm)
                     ELSE Crash(SetRoom(wm, rid,
                              [r0 EXCEPT !.discarded = @ \o TableCards(r0.table)]))
             ELSE
             LET w1 == updateAIMemory(w, rid, r0, isPangkah)
                 players1 == IF isPangkah
                             THEN [r0.players EXCEPT ![winIdx + 1].hand = @ \o TableCards(r0.table)]
                             ELSE r0.players
                 disc1 == IF isPangkah THEN r0.discarded ELSE r0.discarded \o TableCards(r0.table)
                 fin1 == RecordFinished(players1, 1, r0.finishOrder)
                 r1 == [r0 EXCEPT !.players = players1, !.discarded = disc1, !.finishOrder = fin1]
             IN IF Len(Survivors(players1)) <= 1
                THEN GameOver(w1, rid, r1, TRUE)
                ELSE Sched(SetRoom(w1, rid, [r1 EXCEPT !.table = <<>>, !.currentSuit = NoSuit,
                                                       !.turn = winIdx, !.resolving = FALSE]),
                           Timer("next", rid, NEXT_DELAY, FALSE, NoUser, 0))

\* ---------------------------------------------------------------- botDecide
NoCard == Card(NoSuit, -1)

\* Array.prototype.sort((a,b) => a.val - b.val), which is stable
RECURSIVE SortAsc(_)
SortAsc(s) ==
    IF s = <<>> THEN <<>>
    ELSE LET rest == SortAsc(SubSeq(s, 1, Len(s) - 1))
             x == s[Len(s)]
             n == Cardinality({i \in 1..Len(rest) : rest[i].val <= x.val})
         IN SubSeq(rest, 1, n) \o <<x>> \o SubSeq(rest, n + 1, Len(rest))

\* bySuit[s]: the hand's cards of suit s, ascending
BySuit(hand, s) == SortAsc(Filter(hand, LAMBDA c : c.suit = s))
Last(s) == s[Len(s)]

getGamePhase(room) ==
    LET totalCards == SumLen([k \in 1..Len(room.players) |-> room.players[k].hand])
    IN IF totalCards * 100 > 70 * DeckSize THEN "early"
       ELSE IF totalCards * 100 > 35 * DeckSize THEN "mid"
       ELSE "late"

isPlayerVoid(m, playerIdx, suit) == <<playerIdx, suit>> \in m.knownVoidSuits

\* seats other than the bot's that hold cards and have not played this trick
getPlayersAfterBot(room, botIdx) ==
    {i \in 0..(Len(room.players) - 1) :
        /\ i # botIdx
        /\ Len(room.players[i + 1].hand) > 0
        /\ ~\E k \in 1..Len(room.table) : room.table[k].playerIdx = i}

getTableHigh(room) ==
    IF room.currentSuit = NoSuit THEN -1
    ELSE LET vs == {room.table[k].card.val :
                       k \in {j \in 1..Len(room.table) : room.table[j].card.suit = room.currentSuit}}
         IN IF vs = {} THEN -1 ELSE CHOOSE v \in vs : \A u \in vs : u <= v

RECURSIVE HighFold(_, _, _)
HighFold(cards, k, high) ==
    IF k > Len(cards) THEN high
    ELSE HighFold(cards, k + 1,
            IF cards[k].val = high[cards[k].suit]
            THEN [high EXCEPT ![cards[k].suit] = @ - 1] ELSE high)

getHighestInPlayBySuit(m, botHand) ==
    HighFold(botHand, 1, HighFold(m.discardedCards, 1, [s \in Suits |-> KingVal]))

\* singletons.reduce((a, b) => a.val > b.val ? a : b): the highest, the later suit on a tie
RECURSIVE ReduceSingle(_, _, _)
ReduceSingle(cs, k, acc) ==
    IF k > Len(cs) THEN acc
    ELSE ReduceSingle(cs, k + 1, IF acc.val > cs[k].val THEN acc ELSE cs[k])

Singletons(hand) ==
    LET ss == SelectSeq(SuitSeq, LAMBDA s : Len(BySuit(hand, s)) = 1)
    IN [k \in 1..Len(ss) |-> BySuit(hand, ss[k])[1]]

\* entries with cards, sorted by length descending (stable): the first of the longest
MostCommonSuit(hand) ==
    LET ss == SelectSeq(SuitSeq, LAMBDA s : Len(BySuit(hand, s)) > 0)
    IN ss[CHOOSE i \in 1..Len(ss) :
            /\ \A j \in 1..Len(ss) : Len(BySuit(hand, ss[j])) <= Len(BySuit(hand, ss[i]))
            /\ \A j \in 1..(i - 1) : Len(BySuit(hand, ss[j])) < Len(BySuit(hand, ss[i]))]

\* [...hand].sort((a, b) => b.val - a.val)[0]: the first card of the highest value
HighestFirst(hand) ==
    hand[CHOOSE i \in 1..Len(hand) :
            /\ \A j \in 1..Len(hand) : hand[j].val <= hand[i].val
            /\ \A j \in 1..(i - 1) : hand[j].val < hand[i].val]

CountSuit(cards, s) == Len(Filter(cards, LAMBDA c : c.suit = s))

\* late lead: the first suit held with the most cards neither held nor discarded
RECURSIVE SafestScan(_, _, _, _, _)
SafestScan(hand, m, k, safest, safestCount) ==
    IF k > Len(SuitSeq) THEN safest
    ELSE LET s == SuitSeq[k]
             n == Len(BySuit(hand, s))
             remaining == NumRanks - n - CountSuit(m.discardedCards, s)
         IN IF n > 0 /\ remaining > safestCount
            THEN SafestScan(hand, m, k + 1, s, remaining)
            ELSE SafestScan(hand, m, k + 1, safest, safestCount)

\* mid lead: the first suit that baits a void seat, NoSuit when none does
BaitSuit(room, m, hand, playersAfter, highInPlay) ==
    LET ok(s) == /\ Len(BySuit(hand, s)) > 0
                 /\ \E i \in playersAfter : isPlayerVoid(m, i, s)
                 /\ Last(BySuit(hand, s)).val < highInPlay[s]
        ss == SelectSeq(SuitSeq, ok)
    IN IF ss = <<>> THEN NoSuit ELSE ss[1]

LeadChoice(room, m, hand, botIdx) ==
    LET phase == getGamePhase(room)
        playersAfter == getPlayersAfterBot(room, botIdx)
        highInPlay == getHighestInPlayBySuit(m, hand)
        singles == Singletons(hand)
        bait == BaitSuit(room, m, hand, playersAfter, highInPlay)
        safest == SafestScan(hand, m, 1, NoSuit, -1)
    IN IF hand = <<>> THEN NoCard
       ELSE IF phase = "early"
            THEN IF Len(singles) > 0 THEN ReduceSingle(singles, 2, singles[1])
                 ELSE Last(BySuit(hand, MostCommonSuit(hand)))
       ELSE IF phase = "mid"
            THEN IF bait # NoSuit THEN BySuit(hand, bait)[1]
                 ELSE BySuit(hand, MostCommonSuit(hand))[1]
       ELSE IF safest # NoSuit THEN BySuit(hand, safest)[1]
       ELSE SortAsc(hand)[1]

FollowChoice(room, m, hand, botIdx, suitCards) ==
    LET phase == getGamePhase(room)
        tableHigh == getTableHigh(room)
        playersAfter == getPlayersAfterBot(room, botIdx)
        canBeat == Filter(suitCards, LAMBDA c : c.val > tableHigh)
        cantBeat == Filter(suitCards, LAMBDA c : c.val <= tableHigh)
        voidAfter == {i \in playersAfter : isPlayerVoid(m, i, room.currentSuit)}
    IN IF phase \in {"mid", "late"} /\ voidAfter # {} /\ Len(cantBeat) > 0 THEN Last(cantBeat)
       ELSE IF phase \in {"mid", "late"} /\ voidAfter # {} /\ Len(canBeat) > 0 THEN canBeat[1]
       ELSE IF playersAfter = {} /\ Len(canBeat) > 0 THEN canBeat[1]
       ELSE IF phase = "early" /\ Len(canBeat) > 0 THEN Last(canBeat)
       ELSE IF Len(cantBeat) > 0 THEN Last(cantBeat)
       ELSE IF Len(canBeat) > 0 THEN canBeat[1]
       ELSE suitCards[1]

PangkahChoice(room, hand) ==
    LET singles == Singletons(hand)
    IN IF Len(singles) > 0 THEN ReduceSingle(singles, 2, singles[1])
       ELSE IF hand = <<>> THEN NoCard
       ELSE IF getGamePhase(room) = "late" THEN Last(BySuit(hand, MostCommonSuit(hand)))
       ELSE HighestFirst(hand)

botDecide(room, m, botIdx) ==
    LET hand == room.players[botIdx + 1].hand
        ks == FindIndex(hand, IsKS)
        suitCards == IF room.currentSuit = NoSuit THEN <<>> ELSE BySuit(hand, room.currentSuit)
    IN IF room.isFirstMove THEN (IF ks = -1 THEN NoCard ELSE hand[ks + 1])
       ELSE IF Len(room.table) = 0 THEN LeadChoice(room, m, hand, botIdx)
       ELSE IF Len(suitCards) > 0 THEN FollowChoice(room, m, hand, botIdx, suitCards)
       ELSE PangkahChoice(room, hand)

\* the lead fallback `hand.sort(...)[0]` sorts the bot's hand in place
BotSortsHand(room, m, botIdx) ==
    LET hand == room.players[botIdx + 1].hand
    IN /\ ~room.isFirstMove /\ Len(room.table) = 0 /\ hand # <<>>
       /\ getGamePhase(room) = "late"
       /\ SafestScan(hand, m, 1, NoSuit, -1) = NoSuit

\* -------------------------------------------------------------------- deal
\* deck.forEach((c, i) => players[i % n].hand.push(c)): the hand of seat j
HandOf(deck, j, n) ==
    LET ks == SelectSeq([k \in 1..Len(deck) |-> k], LAMBDA k : (k - 1) % n = j)
    IN [i \in 1..Len(ks) |-> deck[ks[i]]]

\* a deal that leaves the room's AI memory as it is
dealKeepsMemory(w, rid, players, jp, jd) ==
    LET r == w.rooms[rid]
        seats == shuffle(players, jp)
        deck == shuffle(createDeck, jd)
        n == Len(seats)
        players1 == [k \in 1..n |-> [seats[k] EXCEPT !.hand = HandOf(deck, k - 1, n)]]
        turn1 == FindIndex(players1, LAMBDA p : \E i \in 1..Len(p.hand) : IsKS(p.hand[i]))
    IN SetRoom(w, rid, [r EXCEPT !.players = players1, !.turn = turn1, !.isFirstMove = TRUE])

\* jp and jd are the random draws of the two shuffles
deal(w, rid, players, jp, jd) ==
    LET r == w.rooms[rid]
        seats == shuffle(players, jp)
        deck == shuffle(createDeck, jd)
        n == Len(seats)
        players1 == [k \in 1..n |-> [seats[k] EXCEPT !.hand = HandOf(deck, k - 1, n)]]
        turn1 == FindIndex(players1, LAMBDA p : \E i \in 1..Len(p.hand) : IsKS(p.hand[i]))
    IN [SetRoom(w, rid, [r EXCEPT !.players = players1, !.turn = turn1, !.isFirstMove = TRUE])
            EXCEPT !.mem[rid] = NoMem]

\* the body shared by startGame and the delayed rematch start
beginGame(w, rid, jp, jd) ==
    LET r == w.rooms[rid]
        r1 == [r EXCEPT !.gameNumber = @ + 1, !.gameStarted = TRUE, !.finishOrder = <<>>,
                        !.fateAces = <<>>, !.discarded = <<>>]
        unready == [k \in 1..Len(r.players) |-> [r.players[k] EXCEPT !.rematchReady = FALSE]]
        w1 == deal(SetRoom(w, rid, r1), rid, unready, jp, jd)
        r2 == w1.rooms[rid]
    IN IF r2.players[r2.turn + 1].isBot THEN botTurn(w1, rid, TRUE) ELSE startTimer(w1, rid)

\* ----------------------------------------------------------------- actions
\* what the last handler emitted as errorMsg; NoEv when it emitted none
NoEv == [op |-> "", err |-> ""]
Ev(op, err) == IF err \in {"", "-"} THEN NoEv ELSE [op |-> op, err |-> err]
\* a notification sent to the socket of one identity
Note(ev, to) == [op |-> ev, err |-> "", to |-> to]
Alive == ~crashed
Side == side < MaxSide /\ side' = side + 1
\* the handler's reply; a command that is rejected with a message is outside the normal flow
Reply(op, err) ==
    /\ last' = Ev(op, err)
    /\ IF err \in {"", "-"} THEN UNCHANGED side ELSE Side
PendingRematch(rid) == Len(SelectSeq(timers, LAMBDA t : t.kind = "rematch" /\ t.rid = rid))
Humans(players) == Filter(players, LAMBDA p : ~p.isBot)
SeatOf(r, u) == FindIndex(r.players, LAMBDA p : p.userID = u)
Await(kind, rid, uid, card) == [kind |-> kind, rid |-> rid, uid |-> uid, card |-> card]
Suspend(c) == awaiting' = awaiting \cup {c} /\ Cardinality(awaiting') <= MaxAwaits
Same == UNCHANGED <<rooms, timers, mem, crashed>>

\* createRoom under an id not used before; the handler's own await is not modelled.
\* A second room under a deleted room's id is CreateRoomAgain.
CreateRoom(rid, u, max, botCount) ==
    /\ Alive /\ rid \notin used
    /\ max >= MIN_PLAYERS /\ max <= MAX_PLAYERS
    /\ LET bots == IF botCount > MAX_BOTS THEN MAX_BOTS ELSE botCount
           ps == <<NewPlayer(u, FALSE)>> \o [i \in 1..bots |-> NewPlayer(BotId(rid, i - 1), TRUE)]
       IN rooms' = [rooms EXCEPT ![rid] = [NoRoom EXCEPT !.exists = TRUE, !.maxPlayers = max,
                                                         !.players = ps]]
    /\ used' = used \cup {rid}
    /\ Reply("createRoom", "")
    /\ UNCHANGED <<timers, mem, awaiting, crashed>>

\* joinRoom up to `await Player.findOne`
JoinRoom(rid, u) ==
    /\ Alive
    /\ \A i \in 1..Len(rooms[rid].players) : rooms[rid].players[i].userID # u
    /\ \A c \in awaiting : ~(c.kind = "join" /\ c.uid = u)
    /\ LET r == rooms[rid]
           err == IF ~r.exists THEN "Not found"
                  ELSE IF Len(r.players) >= r.maxPlayers THEN "Full"
                  ELSE IF r.gameStarted THEN "In progress" ELSE ""
       IN /\ Reply("joinRoom", err)
          /\ IF err = "" THEN Suspend(Await("join", rid, u, NoCard)) ELSE UNCHANGED awaiting
    /\ UNCHANGED <<rooms, used, timers, mem, crashed>>

\* joinRoom after the await: the player is seated
JoinRoomDone(c) ==
    /\ Alive /\ c \in awaiting /\ c.kind = "join"
    /\ awaiting' = awaiting \ {c}
    /\ rooms' = [rooms EXCEPT ![c.rid].players = Append(@, NewPlayer(c.uid, FALSE))]
    /\ Reply("joinRoom", "")
    /\ UNCHANGED <<used, timers, mem, crashed>>

\* leaveRoom: the seat is spliced out; the room goes with its last human
LeaveRoom(rid, u) ==
    /\ Alive /\ rooms[rid].exists
    /\ LET r == rooms[rid]
           idx == FindIndex(r.players, LAMBDA p : p.userID = u)
           ps == RemoveAt(r.players, idx + 1)
       IN /\ idx # -1
          /\ rooms' = [rooms EXCEPT ![rid] =
                          [r EXCEPT !.players = ps, !.exists = Len(Humans(ps)) > 0]]
    /\ last' = NoEv /\ Side
    /\ UNCHANGED <<used, timers, mem, awaiting, crashed>>

\* requestCloseRoom and the force-close endpoint
CloseRoom(rid) ==
    /\ Alive /\ rooms[rid].exists
    /\ rooms' = [rooms EXCEPT ![rid].exists = FALSE]
    /\ last' = NoEv /\ Side
    /\ UNCHANGED <<used, timers, mem, awaiting, crashed>>

\* startGame.  The command is sent to a room whose game is not running.
StartGame(rid) ==
    /\ Alive /\ rooms[rid].exists /\ ~rooms[rid].gameStarted
    /\ rooms[rid].gameNumber + PendingRematch(rid) < MaxGames
    /\ LET r == rooms[rid]
           err == IF Len(Humans(r.players)) < 1 THEN "Need human"
                  ELSE IF Len(r.players) < MIN_PLAYERS THEN "Need more" ELSE ""
       IN /\ Reply("startGame", err)
          /\ IF err # "" THEN Same
             ELSE \E jp \in Draws(Len(r.players)), jd \in Draws(DeckSize) :
                      Commit(beginGame(World, rid, jp, jd))
    /\ UNCHANGED <<used, awaiting>>

\* the validation without the follow-suit rule
PlayErrorNoSuit(r, u, cardObject) ==
    IF ~r.exists \/ r.resolving THEN "-"
    ELSE IF r.players[r.turn + 1].userID # u THEN "Not your turn"
    ELSE LET p == r.players[r.turn + 1]
             ci == FindIndex(p.hand, LAMBDA c : c.suit = cardObject.suit /\ c.val = cardObject.val)
         IN IF ci = -1 THEN "Card not found"
            ELSE IF r.isFirstMove /\ ~IsKS(p.hand[ci + 1]) THEN "Must play KS"
            ELSE ""

\* the validation without the turn check
PlayErrorAnySeat(r, u, cardObject) ==
    IF ~r.exists \/ r.resolving THEN "-"
    ELSE LET p == r.players[r.turn + 1]
             ci == FindIndex(p.hand, LAMBDA c : c.suit = cardObject.suit /\ c.val = cardObject.val)
         IN IF ci = -1 THEN "Card not found"
            ELSE IF r.isFirstMove /\ ~IsKS(p.hand[ci + 1]) THEN "Must play KS"
            ELSE IF /\ Len(r.table) > 0
                    /\ p.hand[ci + 1].suit # r.currentSuit
                    /\ \E i \in 1..Len(p.hand) : p.hand[i].suit = r.currentSuit
                 THEN "Must follow suit"
            ELSE ""

\* the validation of the playCard handler: the errorMsg, "" when the play is accepted,
\* "-" when the handler returns without a message
PlayError(r, u, cardObject) ==
    IF ~r.exists \/ r.resolving THEN "-"
    ELSE IF r.players[r.turn + 1].userID # u THEN "Not your turn"
    ELSE LET p == r.players[r.turn + 1]
             ci == FindIndex(p.hand, LAMBDA c : c.suit = cardObject.suit /\ c.val = cardObject.val)
         IN IF ci = -1 THEN "Card not found"
            ELSE IF r.isFirstMove /\ ~IsKS(p.hand[ci + 1]) THEN "Must play KS"
            ELSE IF /\ Len(r.table) > 0
                    /\ p.hand[ci + 1].suit # r.currentSuit
                    /\ \E i \in 1..Len(p.hand) : p.hand[i].suit = r.currentSuit
                 THEN "Must follow suit"
            ELSE ""

PlayCard(rid, u, cardObject) ==
    /\ Alive
    /\ LET r == rooms[rid]
       IN IF r.exists /\ ~r.resolving /\ ~InRange(r.players, r.turn)
          THEN /\ crashed' = TRUE /\ Reply("playCard", "TypeError")
               /\ UNCHANGED <<rooms, timers, mem>>
          ELSE LET err == PlayError(r, u, cardObject)
               IN /\ Reply("playCard", err)
                  /\ IF err # "" THEN Same
                     ELSE Commit(processCard(World, rid, r.turn, cardObject))
    /\ UNCHANGED <<used, awaiting>>

\* ------------------------------------------------------- timer callbacks
\* The profile store answers within a tick: no callback is due while a handler
\* is suspended at an await.
Fires(kind) == Alive /\ awaiting = {} /\ timers # <<>> /\ Head(timers).kind = kind
\* the head callback runs at its deadline
Fired == [World EXCEPT !.timers = Elapse(Tail(timers), Head(timers).rem)]
CommitFired(w) == CommitAfter(w, 0)

\* the fallback card of the turn timer
AutoCard(r, p) ==
    LET ks == FindIndex(p.hand, IsKS)
        fs == FindIndex(p.hand, LAMBDA c : c.suit = r.currentSuit)
    IN IF r.isFirstMove THEN (IF ks # -1 THEN p.hand[ks + 1] ELSE p.hand[1])
       ELSE IF r.currentSuit # NoSuit /\ fs # -1 THEN p.hand[fs + 1]
       ELSE p.hand[1]

\* the turn timer expires; for a human seat the handler awaits trackAutoPlay
FireTurn ==
    /\ Fires("turn")
    /\ LET rid == Head(timers).rid
           r == rooms[rid]
       IN IF ~r.exists \/ ~r.gameStarted \/ ~InRange(r.players, r.turn)
          THEN CommitFired(Fired) /\ UNCHANGED awaiting
          ELSE LET p == r.players[r.turn + 1]
               IN IF Len(p.hand) = 0 THEN CommitFired(Fired) /\ UNCHANGED awaiting
                  ELSE IF p.isBot
                       THEN CommitFired(processCard(Fired, rid, r.turn, AutoCard(r, p)))
                            /\ UNCHANGED awaiting
                       ELSE CommitFired(Fired) /\ Suspend(Await("auto", rid, NoUser, AutoCard(r, p)))
    /\ last' = NoEv
    /\ UNCHANGED <<used, side>>

\* trackAutoPlay returned: the card chosen at expiry is played for the seat now at turn
AutoPlayDone(c) ==
    /\ Alive /\ c \in awaiting /\ c.kind = "auto"
    /\ awaiting' = awaiting \ {c}
    /\ Commit(processCard(World, c.rid, rooms[c.rid].turn, c.card))
    /\ last' = NoEv
    /\ UNCHANGED <<used, side>>

FireResolve ==
    /\ Fires("resolve")
    /\ CommitFired(resolveRound(Fired, Head(timers).rid, Head(timers).pang))
    /\ last' = NoEv
    /\ UNCHANGED <<used, awaiting, side>>

\* 500 ms after a resolution: the new leader's bot delay or turn timer
FireNext ==
    /\ Fires("next")
    /\ LET rid == Head(timers).rid
           r == rooms[rid]
       IN IF InRange(r.players, r.turn) /\ r.players[r.turn + 1].isBot
          THEN CommitFired(botTurn(Fired, rid, TRUE))
          ELSE CommitFired(startTimer(Fired, rid))
    /\ last' = NoEv
    /\ UNCHANGED <<used, awaiting, side>>

\* the bot's thinking delay ends
FireBot ==
    /\ Fires("bot")
    /\ LET rid == Head(timers).rid
           r == rooms[rid]
           botIdx == FindIndex(r.players, LAMBDA p : p.userID = Head(timers).bot)
       IN IF ~r.exists \/ ~r.gameStarted \/ r.turn # botIdx THEN CommitFired(Fired)
          ELSE LET card == botDecide(r, mem[rid], botIdx)
                   r1 == IF BotSortsHand(r, mem[rid], botIdx)
                         THEN [r EXCEPT !.players[botIdx + 1].hand = SortAsc(@)] ELSE r
                   w1 == SetRoom(Fired, rid, r1)
               IN IF card = NoCard THEN CommitFired(w1)
                  ELSE CommitFired(processCard(w1, rid, r.turn, card))
    /\ last' = NoEv
    /\ UNCHANGED <<used, awaiting, side>>

\* ----------------------------------------------------------------- swap
\* req.hand.push(...acc.hand); acc.hand = []
Transfer(players, reqIdx, accIdx) ==
    IF reqIdx = accIdx THEN [players EXCEPT ![accIdx + 1].hand = <<>>]
    ELSE [players EXCEPT ![reqIdx + 1].hand = @ \o players[accIdx + 1].hand,
                         ![accIdx + 1].hand = <<>>]

SwapTarget(r, myIdx) == SkipEmpty(r.players, (myIdx + 1) % Len(r.players), 0)

\* sendSwapRequest from any seated identity, at turn or not
SendSwapAnySeat(rid, fromUserID) ==
    /\ Alive
    /\ LET r == rooms[rid]
           myIdx == FindIndex(r.players, LAMBDA p : p.userID = fromUserID)
       IN IF ~r.exists \/ ~r.gameStarted \/ myIdx = -1
          THEN Same /\ UNCHANGED <<side, last>>
          ELSE LET tgt == SwapTarget(r, myIdx)
               IN IF tgt = myIdx \/ Len(r.players[tgt + 1].hand) = 0
                  THEN Same /\ UNCHANGED <<side, last>>
                  ELSE /\ Side
                       /\ last' = Note(IF r.players[tgt + 1].isBot THEN "botSwapPending"
                                       ELSE "receiveSwapRequest", r.players[tgt + 1].userID)
                       /\ IF r.players[tgt + 1].isBot
                          THEN Commit(Sched(clearTimer(World, rid),
                                   Timer("swap", rid, SWAP_DELAY, FALSE, r.players[tgt + 1].userID, myIdx)))
                          ELSE Commit(clearTimer(World, rid))
    /\ UNCHANGED <<used, awaiting>>

\* sendSwapRequest: the request goes to the next seat that holds cards, or a bot target
\* announces its acceptance; the countdown is paused
SendSwapRequest(rid, fromUserID) ==
    /\ Alive
    /\ LET r == rooms[rid]
           myIdx == FindIndex(r.players, LAMBDA p : p.userID = fromUserID)
       IN IF ~r.exists \/ ~r.gameStarted \/ myIdx = -1 \/ r.turn # myIdx
          THEN Same /\ UNCHANGED <<side, last>>
          ELSE LET tgt == SwapTarget(r, myIdx)
               IN IF tgt = myIdx \/ Len(r.players[tgt + 1].hand) = 0
                  THEN Same /\ UNCHANGED <<side, last>>
                  ELSE /\ Side
                       /\ last' = Note(IF r.players[tgt + 1].isBot THEN "botSwapPending"
                                       ELSE "receiveSwapRequest", r.players[tgt + 1].userID)
                       /\ IF r.players[tgt + 1].isBot
                          THEN Commit(Sched(clearTimer(World, rid),
                                   Timer("swap", rid, SWAP_DELAY, FALSE, r.players[tgt + 1].userID, myIdx)))
                          ELSE Commit(clearTimer(World, rid))
    /\ UNCHANGED <<used, awaiting>>

\* the bot target auto-accepts; the handler then awaits trackHandAbsorb
FireSwap ==
    /\ Fires("swap")
    /\ LET rid == Head(timers).rid
           r == rooms[rid]
           myIdx == Head(timers).idx
           tgtIdx == FindIndex(r.players, LAMBDA p : p.userID = Head(timers).bot)
       IN IF ~r.exists THEN CommitFired(Fired) /\ UNCHANGED awaiting
          ELSE IF ~InRange(r.players, myIdx) THEN CommitFired(Crash(Fired)) /\ UNCHANGED awaiting
          ELSE /\ CommitFired(SetRoom(Fired, rid, [r EXCEPT !.players = Transfer(@, myIdx, tgtIdx)]))
               /\ Suspend(Await("absorb", rid, Head(timers).bot, NoCard))
    /\ last' = NoEv
    /\ UNCHANGED <<used, side>>

AcceptSwap(rid, fromUserID, myUserID) ==
    /\ Alive
    /\ LET r == rooms[rid]
           reqIdx == FindIndex(r.players, LAMBDA p : p.userID = fromUserID)
           accIdx == FindIndex(r.players, LAMBDA p : p.userID = myUserID)
       IN IF ~r.exists \/ reqIdx = -1 \/ accIdx = -1
          THEN Same /\ UNCHANGED <<awaiting, side, last>>
          ELSE /\ last' = NoEv /\ Side
               /\ Commit(SetRoom(World, rid, [r EXCEPT !.players = Transfer(@, reqIdx, accIdx)]))
               /\ Suspend(Await("absorb", rid, myUserID, NoCard))
    /\ UNCHANGED used

\* trackHandAbsorb returned: finish order, survivor count, game over or turn timer
AbsorbDone(c) ==
    /\ Alive /\ c \in awaiting /\ c.kind = "absorb"
    /\ awaiting' = awaiting \ {c}
    /\ LET r == rooms[c.rid]
           fin == IF Includes(r.finishOrder, c.uid) THEN r.finishOrder
                  ELSE Append(r.finishOrder, c.uid)
           r1 == [r EXCEPT !.finishOrder = fin]
       IN IF Len(Survivors(r.players)) <= 1
          THEN Commit(GameOver(World, c.rid, r1, FALSE))
          ELSE Commit(startTimer(SetRoom(World, c.rid, r1), c.rid))
    /\ last' = NoEv
    /\ UNCHANGED <<used, side>>

\* declineSwap passing the turn to the next seat
DeclineSwapPassesTurn(rid, fromUserID) ==
    /\ Alive
    /\ IF rooms[rid].exists /\ rooms[rid].gameStarted
       THEN Side /\ Commit(advancePlayer(World, rid))
       ELSE Same /\ UNCHANGED side
    /\ last' = IF rooms[rid].exists /\ SeatOf(rooms[rid], fromUserID) # -1
               THEN Note("swapDeclined", fromUserID) ELSE NoEv
    /\ UNCHANGED <<used, awaiting>>

\* declineSwap: the requester, if seated, is told; the turn timer starts again
DeclineSwap(rid, fromUserID) ==
    /\ Alive
    /\ IF rooms[rid].exists /\ rooms[rid].gameStarted
       THEN Side /\ Commit(startTimer(World, rid))
       ELSE Same /\ UNCHANGED side
    /\ last' = IF rooms[rid].exists /\ SeatOf(rooms[rid], fromUserID) # -1
               THEN Note("swapDeclined", fromUserID) ELSE NoEv
    /\ UNCHANGED <<used, awaiting>>

\* --------------------------------------------------------------- rematch
\* the handler of requestRematch in a room where no game runs
RematchRequested(rid, u) ==
    /\ Alive /\ rooms[rid].exists /\ ~rooms[rid].gameStarted
    /\ LET r == rooms[rid]
           idx == FindIndex(r.players, LAMBDA p : p.userID = u)
           r1 == [r EXCEPT !.players[idx + 1].rematchReady = TRUE]
           allReady == \A i \in 1..Len(r1.players) : r1.players[i].rematchReady
           w1 == SetRoom(World, rid, r1)
       IN /\ idx # -1
          /\ IF allReady /\ Len(r1.players) >= MIN_PLAYERS
             THEN Commit(Sched(w1, Timer("rematch", rid, REMATCH_DELAY, FALSE, NoUser, 0)))
             ELSE Commit(w1)
    /\ last' = NoEv
    /\ UNCHANGED <<used, awaiting, side>>

\* requestRematch while the games started and the starts pending stay within MaxGames
RequestRematch(rid, u) ==
    /\ rooms[rid].gameNumber + PendingRematch(rid) < MaxGames
    /\ RematchRequested(rid, u)

\* requestRematch once more while the delayed start of the next game is pending
RequestRematchAgain(rid, u) ==
    /\ rooms[rid].gameNumber < MaxGames /\ PendingRematch(rid) = 1
    /\ RematchRequested(rid, u)

\* the delayed start of the next game
FireRematch ==
    /\ Fires("rematch")
    /\ LET rid == Head(timers).rid
           r == rooms[rid]
       IN IF Len(r.players) = 0 THEN CommitFired(Crash(Fired))
          ELSE \E jp \in Draws(Len(r.players)), jd \in Draws(DeckSize) :
                   CommitFired(beginGame(Fired, rid, jp, jd))
    /\ last' = NoEv
    /\ UNCHANGED <<used, awaiting, side>>

\* --------------------------------------------------------- specification
Init ==
    /\ rooms = [rid \in RoomIds |-> NoRoom]
    /\ used = {}
    /\ timers = <<>>
    /\ mem = [rid \in RoomIds |-> NoMem]
    /\ awaiting = {}
    /\ crashed = FALSE
    /\ side = 0
    /\ last = NoEv

BotIds(rid) == {BotId(rid, i) : i \in 0..(MAX_BOTS - 1)}

Next ==
    \/ \E rid \in RoomIds, u \in Hosts, max \in SeatLimits, bc \in 0..MaxBotCount :
           CreateRoom(rid, u, max, bc)
    \/ \E rid \in RoomIds, u \in Users : JoinRoom(rid, u)
    \/ \E c \in awaiting : JoinRoomDone(c)
    \/ \E rid \in RoomIds, u \in Users : LeaveRoom(rid, u)
    \/ \E rid \in RoomIds : CloseRoom(rid)
    \/ \E rid \in RoomIds : rooms[rid].gameNumber = 0 /\ StartGame(rid)
    \/ \E rid \in RoomIds, u \in Users, c \in Cards : PlayCard(rid, u, c)
    \/ FireTurn
    \/ \E c \in awaiting : AutoPlayDone(c)
    \/ FireResolve
    \/ FireNext
    \/ FireBot
    \/ \E rid \in RoomIds, u \in Users : SendSwapRequest(rid, u)
    \/ FireSwap
    \/ \E rid \in RoomIds : \E a, b \in Users \cup BotIds(rid) : AcceptSwap(rid, a, b)
    \/ \E c \in awaiting : AbsorbDone(c)
    \/ \E rid \in RoomIds, u \in Users : DeclineSwap(rid, u)

\* every command at any time, one game per room
Spec == Init /\ [][Next]_vars

NextRematch ==
    \/ \E rid \in RoomIds, u \in Hosts, max \in SeatLimits : CreateRoom(rid, u, max, 1)
    \/ \E rid \in RoomIds : StartGame(rid)
    \/ \E rid \in RoomIds, u \in Users, c \in Cards : PlayCard(rid, u, c)
    \/ FireTurn
    \/ \E c \in awaiting : AutoPlayDone(c)
    \/ FireResolve
    \/ FireNext
    \/ FireBot
    \/ \E rid \in RoomIds, u \in Users : RequestRematch(rid, u)
    \/ FireRematch

\* a host and a bot play game after game
SpecRematch == Init /\ [][NextRematch]_vars

NextRematchTwice ==
    \/ \E rid \in RoomIds, u \in Hosts, max \in SeatLimits : CreateRoom(rid, u, max, 1)
    \/ \E rid \in RoomIds : StartGame(rid)
    \/ \E rid \in RoomIds, u \in Users, c \in Cards : PlayCard(rid, u, c)
    \/ FireTurn
    \/ \E c \in awaiting : AutoPlayDone(c)
    \/ FireResolve
    \/ FireNext
    \/ FireBot
    \/ \E rid \in RoomIds, u \in Users : RequestRematch(rid, u)
    \/ \E rid \in RoomIds, u \in Users : RequestRematchAgain(rid, u)
    \/ FireRematch

\* a host and a bot play game after game; the host may ask for the rematch twice
SpecRematchTwice == Init /\ [][NextRematchTwice]_vars

NextPlay ==
    \/ \E rid \in RoomIds, u \in Hosts, max \in SeatLimits, bc \in 0..MaxBotCount :
           CreateRoom(rid, u, max, bc)
    \/ \E rid \in RoomIds, u \in Users : JoinRoom(rid, u)
    \/ \E c \in awaiting : JoinRoomDone(c)
    \/ \E rid \in RoomIds : rooms[rid].gameNumber = 0 /\ StartGame(rid)
    \/ \E rid \in RoomIds, u \in Users, c \in Cards : PlayCard(rid, u, c)
    \/ FireTurn
    \/ \E c \in awaiting : AutoPlayDone(c)
    \/ FireResolve
    \/ FireNext
    \/ FireBot

\* one game of ordinary play: the seats play cards and the timers run
SpecPlay == Init /\ [][NextPlay]_vars

NextSwap ==
    \/ \E rid \in RoomIds, u \in Hosts, max \in SeatLimits, bc \in 0..MaxBotCount :
           CreateRoom(rid, u, max, bc)
    \/ \E rid \in RoomIds, u \in Users : JoinRoom(rid, u)
    \/ \E c \in awaiting : JoinRoomDone(c)
    \/ \E rid \in RoomIds : rooms[rid].gameNumber = 0 /\ StartGame(rid)
    \/ \E rid \in RoomIds, u \in Users, c \in Cards : PlayCard(rid, u, c)
    \/ FireTurn
    \/ \E c \in awaiting : AutoPlayDone(c)
    \/ FireResolve
    \/ FireNext
    \/ FireBot
    \/ \E rid \in RoomIds, u \in Users : SendSwapRequest(rid, u)
    \/ FireSwap
    \/ \E c \in awaiting : AbsorbDone(c)
    \/ \E rid \in RoomIds, u \in Users : DeclineSwap(rid, u)

\* ordinary play in which the seat at turn may ask the next seat for its hand
SpecSwap == Init /\ [][NextSwap]_vars

NextSwapRematch ==
    \/ \E rid \in RoomIds, u \in Hosts, max \in SeatLimits : CreateRoom(rid, u, max, 1)
    \/ \E rid \in RoomIds : StartGame(rid)
    \/ \E rid \in RoomIds, u \in Users, c \in Cards : PlayCard(rid, u, c)
    \/ FireTurn
    \/ \E c \in awaiting : AutoPlayDone(c)
    \/ FireResolve
    \/ FireNext
    \/ FireBot
    \/ \E rid \in RoomIds, u \in Users : SendSwapRequest(rid, u)
    \/ FireSwap
    \/ \E c \in awaiting : AbsorbDone(c)
    \/ \E rid \in RoomIds, u \in Users : RequestRematch(rid, u)
    \/ FireRematch

\* a host and a bot play game after game, and the host may ask the bot for its hand
SpecSwapRematch == Init /\ [][NextSwapRematch]_vars

\* ------------------------------------------------------------ a reused room id
\* createRoom under the id of a deleted room: `rooms[rid]` is a new object.  The step is
\* taken when the callbacks still pending for the id reach the room only through
\* `rooms[rid]` (the countdown and the resolution) and no handler is suspended.
CreateRoomAgain(rid, u, max, botCount) ==
    /\ Alive /\ rid \in used /\ ~rooms[rid].exists
    /\ awaiting = {}
    /\ \A i \in 1..Len(timers) : timers[i].rid = rid => timers[i].kind \in {"turn", "resolve"}
    /\ max >= MIN_PLAYERS /\ max <= MAX_PLAYERS
    /\ LET bots == IF botCount > MAX_BOTS THEN MAX_BOTS ELSE botCount
           ps == <<NewPlayer(u, FALSE)>> \o [i \in 1..bots |-> NewPlayer(BotId(rid, i - 1), TRUE)]
       IN rooms' = [rooms EXCEPT ![rid] = [NoRoom EXCEPT !.exists = TRUE, !.maxPlayers = max,
                                                         !.players = ps]]
    /\ Reply("createRoom", "")
    /\ UNCHANGED <<used, timers, mem, awaiting, crashed>>

NextReuse ==
    \/ \E rid \in RoomIds, u \in Hosts, max \in SeatLimits : CreateRoom(rid, u, max, 1)
    \/ \E rid \in RoomIds, u \in Hosts, max \in SeatLimits : CreateRoomAgain(rid, u, max, 1)
    \/ \E rid \in RoomIds : rooms[rid].gameNumber = 0 /\ StartGame(rid)
    \/ \E rid \in RoomIds, u \in Users, c \in Cards : PlayCard(rid, u, c)
    \/ FireTurn
    \/ \E c \in awaiting : AutoPlayDone(c)
    \/ FireResolve
    \/ FireNext
    \/ FireBot
    \/ \E rid \in RoomIds, u \in Users : LeaveRoom(rid, u)
    \/ \E rid \in RoomIds : CloseRoom(rid)

\* a host and a bot play; the room is deleted and its id is used for a new room
SpecReuse == Init /\ [][NextReuse]_vars

\* ---------------------------------------------------------------- two rooms
AllRooms == {"r1", "r2"}
HostOf == [r1 |-> "u1", r2 |-> "u2"]
BotsOf == [r1 |-> 2, r2 |-> 1]

InitRooms ==
    /\ rooms = [rid \in AllRooms |-> NoRoom]
    /\ used = {}
    /\ timers = <<>>
    /\ mem = [rid \in AllRooms |-> NoMem]
    /\ awaiting = {}
    /\ crashed = FALSE
    /\ side = 0
    /\ last = NoEv

\* the one deal looked at in each room: the seats in joining order, and these hands
HandsOf ==
    [r1 |-> <<(<<Card("Hearts", KingVal), Card("Hearts", KingVal - 1)>>),
              (<<Card("Spades", KingVal - 1)>>), (<<KingOfSpades>>)>>,
     r2 |-> <<(<<KingOfSpades, Card("Hearts", KingVal)>>),
              (<<Card("Spades", KingVal - 1), Card("Hearts", KingVal - 1)>>)>>]

DealtAs(rid) ==
    LET ps == rooms'[rid].players
    IN /\ ps[1].userID = HostOf[rid]
       /\ \A k \in 2..Len(ps) : ps[k].userID = BotId(rid, k - 2)
       /\ [k \in 1..Len(ps) |-> ps[k].hand] = HandsOf[rid]

NextRooms ==
    \/ \E rid \in AllRooms : CreateRoom(rid, HostOf[rid], 2, BotsOf[rid])
    \/ \E rid \in AllRooms : rooms[rid].gameNumber = 0 /\ StartGame(rid) /\ DealtAs(rid)
    \/ \E rid \in AllRooms, c \in Cards : PlayCard(rid, HostOf[rid], c)
    \/ FireTurn
    \/ \E c \in awaiting : AutoPlayDone(c)
    \/ FireResolve
    \/ FireNext
    \/ FireBot
    \/ \E rid \in AllRooms : SendSwapRequest(rid, HostOf[rid])
    \/ FireSwap
    \/ \E rid \in AllRooms : AcceptSwap(rid, HostOf[rid], BotId(rid, 0))
    \/ \E c \in awaiting : AbsorbDone(c)
    \/ \E rid \in AllRooms : DeclineSwap(rid, HostOf[rid])
    \/ \E rid \in AllRooms : LeaveRoom(rid, HostOf[rid])
    \/ \E rid \in AllRooms : CloseRoom(rid)

\* two rooms side by side, each with its host and its bots, one game in each
SpecRooms == InitRooms /\ [][NextRooms]_vars

\* -------------------------------------------------------------- properties
RECURSIVE Flatten(_)
Flatten(hs) == IF hs = <<>> THEN <<>> ELSE Head(hs) \o Flatten(Tail(hs))

\* every card the room holds: the hands, the table, the discard pile, the fate aces
Held(r) ==
    Flatten([k \in 1..Len(r.players) |-> r.players[k].hand])
        \o TableCards(r.table) \o r.discarded \o r.fateAces

Running(r) == r.exists /\ r.gameStarted
Holds(p, c) == \E i \in 1..Len(p.hand) : p.hand[i] = c
HoldsSuit(p, s) == \E i \in 1..Len(p.hand) : p.hand[i].suit = s

\* C1: in every state of a started game, a first game or a rematch, the hands, the table,
\* the discard pile and the fate aces together hold as many cards as the deck has, and no
\* card is in two places.
C1_CardConservation ==
    \A rid \in RoomIds :
        Running(rooms[rid]) =>
            LET held == Held(rooms[rid])
            IN /\ Len(held) = DeckSize
               /\ \A i, j \in 1..Len(held) : i # j => held[i] # held[j]

\* C2: whenever a game is running and no round is being resolved, the turn index names a
\* seat that exists and whose hand is not empty.
C2_TurnSeatHoldsCards ==
    \A rid \in RoomIds :
        LET r == rooms[rid]
        IN Running(r) /\ ~r.resolving =>
               InRange(r.players, r.turn) /\ Len(r.players[r.turn + 1].hand) > 0

\* the case of C3: the seat at turn submits a card off the lead suit while it holds the lead suit
OffSuit(r, u, c) ==
    /\ r.exists /\ InRange(r.players, r.turn)
    /\ r.players[r.turn + 1].userID = u
    /\ Len(r.table) > 0
    /\ HoldsSuit(r.players[r.turn + 1], r.currentSuit)
    /\ c.suit # r.currentSuit

\* C3: when the seat at turn holds a card of the lead suit and the table is not empty, its
\* submission of a card of another suit is rejected, and the hands, the table, the lead suit,
\* the turn and the resolving flag are as before.
C3_FollowSuitRejected ==
    [][\A rid \in RoomIds, u \in Users, c \in Cards :
          OffSuit(rooms[rid], u, c) =>
              /\ PlayError(rooms[rid], u, c) # ""
              /\ PlayCard(rid, u, c) =>
                     /\ rooms'[rid].players = rooms[rid].players
                     /\ rooms'[rid].table = rooms[rid].table
                     /\ rooms'[rid].currentSuit = rooms[rid].currentSuit
                     /\ rooms'[rid].turn = rooms[rid].turn
                     /\ rooms'[rid].resolving = rooms[rid].resolving
                     /\ (~rooms[rid].resolving => last'.op = "playCard" /\ last'.err # "")]_vars

\* a follow-suit rejection has just been sent to the seat at turn
C3_Witness ==
    \E rid \in RoomIds :
        /\ last = [op |-> "playCard", err |-> "Must follow suit"]
        /\ Len(rooms[rid].table) > 0
        /\ HoldsSuit(rooms[rid].players[rooms[rid].turn + 1], rooms[rid].currentSuit)

\* C4: in every game the first card put on the table is the King of Spades, whoever commits
\* it; any other first submission changes nothing; and isFirstMove, once false, becomes true
\* again only with the next deal.
C4_FirstMoveKingOfSpades ==
    [][\A rid \in RoomIds :
          LET r == rooms[rid]
              r2 == rooms'[rid]
          IN /\ Running(r) /\ r.isFirstMove /\ Len(r2.table) > Len(r.table) =>
                    IsKS(r2.table[Len(r2.table)].card)
             /\ \A u \in Users, c \in Cards :
                    Running(r) /\ r.isFirstMove /\ ~IsKS(c) /\ PlayCard(rid, u, c) =>
                        UNCHANGED <<rooms, timers, mem>>
             /\ ~r.isFirstMove /\ r2.isFirstMove => r2.gameNumber = r.gameNumber + 1]_vars

\* C5: when a round of a running game is resolved after an off-suit card was played, the seat
\* that played the highest card of the lead suit takes the table: its hand grows by the table's
\* cards, no other hand changes and the discard pile is as before.
C5_PangkahWinnerAbsorbs ==
    [][\A rid \in RoomIds :
          LET r == rooms[rid]
              r2 == rooms'[rid]
              lead == {k \in 1..Len(r.table) : r.table[k].card.suit = r.currentSuit}
          IN FireResolve /\ Head(timers).rid = rid /\ Head(timers).pang /\ Running(r) =>
                 /\ lead # {}
                 /\ LET top == CHOOSE k \in lead :
                                   \A j \in lead : r.table[j].card.val <= r.table[k].card.val
                        win == r.table[top].playerIdx
                    IN /\ InRange(r.players, win)
                       /\ Len(r2.players) = Len(r.players)
                       /\ r2.players[win + 1].hand = r.players[win + 1].hand \o TableCards(r.table)
                       /\ \A i \in 1..Len(r.players) :
                              i # win + 1 => r2.players[i].hand = r.players[i].hand
                       /\ r2.discarded = r.discarded]_vars

\* C6: while a running game's resolving flag is set, no step puts a card on the table:
\* not a manual play, not the turn timer's automatic play, not a bot's play.
C6_NoCommitWhileResolving ==
    [][\A rid \in RoomIds :
          Running(rooms[rid]) /\ rooms[rid].resolving =>
              Len(rooms'[rid].table) <= Len(rooms[rid].table)]_vars

\* the case of C7: a submission that breaks one of the five rules of the playCard handler
Illegal(r, u, c) ==
    /\ r.exists
    /\ \/ r.resolving
       \/ /\ InRange(r.players, r.turn)
          /\ \/ r.players[r.turn + 1].userID # u
             \/ ~Holds(r.players[r.turn + 1], c)
             \/ r.isFirstMove /\ ~IsKS(c)
             \/ /\ Len(r.table) > 0
                /\ c.suit # r.currentSuit
                /\ HoldsSuit(r.players[r.turn + 1], r.currentSuit)

C8_FinishOrderDistinct ==
    \A rid \in RoomIds :
        LET fin == rooms[rid].finishOrder
        IN \A i, j \in 1..Len(fin) : i # j => fin[i] # fin[j]

\* C9: the game ends exactly when finishOrder holds all seats but one: game over is not
\* declared with fewer entries, and no new trick is open to play once that many are in it.
C9_GameEndsAtAllButOne ==
    [][\A rid \in RoomIds :
          LET r == rooms[rid]
              r2 == rooms'[rid]
          IN /\ Running(r) /\ ~r.resolving /\ r.table = <<>> =>
                    Len(r.finishOrder) < Len(r.players) - 1
             /\ Running(r) /\ r2.exists /\ ~r2.gameStarted =>
                    Len(r2.finishOrder) >= Len(r2.players) - 1]_vars

\* C10: within a game finishOrder only grows at its end, and every identity appended is that
\* of a seat whose hand held a card before the step and holds none after it.
C10_AppendOnEmptying ==
    [][\A rid \in RoomIds :
          LET r == rooms[rid]
              r2 == rooms'[rid]
          IN r.exists /\ r2.gameNumber = r.gameNumber /\ r2.finishOrder # r.finishOrder =>
                 /\ Len(r2.finishOrder) > Len(r.finishOrder)
                 /\ SubSeq(r2.finishOrder, 1, Len(r.finishOrder)) = r.finishOrder
                 /\ \A k \in (Len(r.finishOrder) + 1)..Len(r2.finishOrder) :
                        \E i \in 1..Len(r.players) :
                            /\ r.players[i].userID = r2.finishOrder[k]
                            /\ Len(r.players[i].hand) > 0
                            /\ i <= Len(r2.players)
                            /\ r2.players[i].userID = r2.finishOrder[k]
                            /\ Len(r2.players[i].hand) = 0]_vars

\* the value createDeck gives the Ace, the first rank
AceVal == 0

\* C11: while a game runs, the cards left after the fate aces are set aside divide evenly
\* among the seats, every card set aside is an Ace, and the King of Spades is not among them.
C11_FateRuleDivisible ==
    \A rid \in RoomIds :
        LET r == rooms[rid]
        IN Running(r) =>
               /\ (DeckSize - Len(r.fateAces)) % Len(r.players) = 0
               /\ \A i \in 1..Len(r.fateAces) :
                      r.fateAces[i].val = AceVal /\ ~IsKS(r.fateAces[i])

\* C12: right after every deal all hands have the same size, the turn is at the seat that
\* holds the King of Spades, and isFirstMove is true.
C12_DealEqualHands ==
    [][\A rid \in RoomIds :
          LET r == rooms[rid]
              r2 == rooms'[rid]
          IN r2.gameNumber = r.gameNumber + 1 =>
                 /\ \A i, j \in 1..Len(r2.players) :
                        Len(r2.players[i].hand) = Len(r2.players[j].hand)
                 /\ InRange(r2.players, r2.turn)
                 /\ Holds(r2.players[r2.turn + 1], KingOfSpades)
                 /\ r2.isFirstMove]_vars

\* C13: every step that starts a game, the first of a room or a rematch, leaves the room's AI
\* memory without a void-suit fact and without a played or discarded card.
C13_MemoryClearedAtStart ==
    [][\A rid \in RoomIds :
          rooms'[rid].gameNumber # rooms[rid].gameNumber => mem'[rid] = NoMem]_vars

\* a second game has just been dealt and the memory of the first is gone
C13_Witness ==
    \E rid \in RoomIds :
        /\ rooms[rid].gameNumber = 2 /\ Running(rooms[rid]) /\ rooms[rid].isFirstMove
        /\ mem[rid] = NoMem

\* C14: an accepted swap, whichever two seated identities the command names, appends the
\* accepting seat's whole hand to the requester's hand and empties the accepting seat's hand;
\* the table, the lead suit, the discard pile, the turn and every other hand stay as they were.
C14_SwapMovesWholeHand ==
    [][\A rid \in RoomIds : \A a, b \in Users \cup BotIds(rid) :
          LET r == rooms[rid]
              r2 == rooms'[rid]
              req == SeatOf(r, a) + 1
              acc == SeatOf(r, b) + 1
          IN r.exists /\ req > 0 /\ acc > 0 /\ AcceptSwap(rid, a, b) =>
                 /\ Len(r2.players) = Len(r.players)
                 /\ r2.players[req].hand = r.players[req].hand \o r.players[acc].hand
                 /\ Len(r2.players[req].hand) = Len(r.players[req].hand) + Len(r.players[acc].hand)
                 /\ req # acc => r2.players[acc].hand = <<>>
                 /\ \A i \in 1..Len(r.players) :
                        i \notin {req, acc} => r2.players[i].hand = r.players[i].hand
                 /\ r2.table = r.table /\ r2.currentSuit = r.currentSuit
                 /\ r2.discarded = r.discarded /\ r2.turn = r.turn]_vars

\* the bookkeeping C15 asks of the step that empties the seat of identity u
Settled(r2, u) ==
    /\ Includes(r2.finishOrder, u)
    /\ Len(Survivors(r2.players)) <= 1 => ~r2.gameStarted

\* C15: the step in which a swap is accepted, by the accept command or by a bot's automatic
\* accept, leaves the emptied seat in finishOrder and, when at most one seat still holds
\* cards, leaves the game over.
C15_SwapSettledAtOnce ==
    [][\A rid \in RoomIds :
          LET r == rooms[rid]
              r2 == rooms'[rid]
          IN /\ FireSwap /\ Head(timers).rid = rid /\ Running(r)
                    /\ InRange(r.players, Head(timers).idx) =>
                 Settled(r2, Head(timers).bot)
             /\ \A a, b \in Users \cup BotIds(rid) :
                    Running(r) /\ SeatOf(r, a) # -1 /\ SeatOf(r, b) # -1 /\ AcceptSwap(rid, a, b) =>
                        Settled(r2, b)]_vars

\* C16: a decline command leaves every room as it was (hands, table, turn, finishOrder,
\* gameStarted), and the only socket it writes to is the requester's.
C16_DeclineChangesNothing ==
    [][\A rid \in RoomIds, u \in Users :
          DeclineSwap(rid, u) =>
              /\ UNCHANGED <<rooms, mem, awaiting, crashed>>
              /\ last' = NoEv \/ last' = Note("swapDeclined", u)]_vars

\* a decline has just been handled in a running game with a card on the table
C16_Witness ==
    \E rid \in RoomIds :
        /\ last.op = "swapDeclined"
        /\ Running(rooms[rid]) /\ Len(rooms[rid].table) > 0
        /\ SeatOf(rooms[rid], last.to) # -1

\* the callbacks of one kind pending for a room
Pending(kind, rid) == SelectSeq(timers, LAMBDA t : t.kind = kind /\ t.rid = rid)

\* C17: a room never has two turn countdowns pending: starting one cancels the one before.
C17_OneTurnTimer ==
    \A rid \in RoomIds : Len(Pending("turn", rid)) <= 1

\* a decline has restarted the countdown of the human seat at turn in the middle of a trick:
\* the countdown that was running is gone and the new one has its full time
C17_Witness ==
    \E rid \in RoomIds :
        LET r == rooms[rid]
        IN /\ last.op = "swapDeclined"
           /\ Running(r) /\ ~r.resolving /\ Len(r.table) > 0 /\ awaiting = {}
           /\ InRange(r.players, r.turn) /\ ~r.players[r.turn + 1].isBot
           /\ Len(Pending("turn", rid)) = 1
           /\ Pending("turn", rid)[1].rem = Ticks(TURN_LIMIT)

\* C18: a room never has a human turn countdown and a bot thinking delay pending together,
\* and never two bot thinking delays.
C18_TimersExclusive ==
    \A rid \in RoomIds :
        /\ Len(Pending("turn", rid)) + Len(Pending("bot", rid)) <= 1

\* the player counts the Fate Rule is defined for
FateCounts == {4, 5, 6, 7, 8, 10}

\* C20: a startGame command in a room whose player count is below the minimum or is not one
\* the Fate Rule is defined for starts nothing: gameStarted, gameNumber, the hands and the
\* turn are as before.
C20_StartNeedsFateCount ==
    [][\A rid \in RoomIds :
          LET r == rooms[rid]
              r2 == rooms'[rid]
          IN StartGame(rid) /\ (Len(r.players) < MIN_PLAYERS \/ Len(r.players) \notin FateCounts) =>
                 /\ r2.gameStarted = r.gameStarted /\ r2.gameNumber = r.gameNumber
                 /\ r2.players = r.players /\ r2.turn = r.turn]_vars

\* the step is a command or a callback addressed to room a
ToRoom(a) ==
    \/ \E u \in Users, max \in SeatLimits, bc \in 0..MAX_BOTS : CreateRoom(a, u, max, bc)
    \/ \E u \in Users : JoinRoom(a, u) \/ LeaveRoom(a, u) \/ SendSwapRequest(a, u)
    \/ \E u \in Users : DeclineSwap(a, u) \/ RequestRematch(a, u)
    \/ \E u \in Users, c \in Cards : PlayCard(a, u, c)
    \/ \E u, v \in Users \cup BotIds(a) : AcceptSwap(a, u, v)
    \/ CloseRoom(a)
    \/ (rooms'[a].gameNumber # rooms[a].gameNumber \/ last'.op = "startGame") /\ StartGame(a)
    \/ \E c \in awaiting : c.rid = a /\ (JoinRoomDone(c) \/ AutoPlayDone(c) \/ AbsorbDone(c))
    \/ /\ timers # <<>> /\ Head(timers).rid = a
       /\ FireTurn \/ FireResolve \/ FireNext \/ FireBot \/ FireSwap \/ FireRematch

RoomTimers(q, rid) == SelectSeq(q, LAMBDA t : t.rid = rid)

\* C19: a command or a callback addressed to one room leaves every other room as it was:
\* its players, hands, table, turn and finishOrder, its AI memory, its pending callbacks (which
\* only come nearer to their deadlines), its suspended handlers and the process it lives in.
C19_RoomIsolation ==
    [][\A a, b \in AllRooms :
          a # b /\ ToRoom(a) =>
              /\ rooms'[b] = rooms[b]
              /\ mem'[b] = mem[b]
              /\ \E d \in 0..Ticks(TURN_LIMIT) :
                     RoomTimers(timers', b) = Elapse(RoomTimers(timers, b), d)
              /\ {c \in awaiting' : c.rid = b} = {c \in awaiting : c.rid = b}
              /\ rooms[b].exists => crashed' = crashed]_vars

\* C21: a room never seats more players (humans and bots) than its maxPlayers, and no seat is
\* added to a room whose game has started, whichever of createRoom, joinRoom and startGame
\* ran and in whichever order around the profile lookup.
C21_Admission ==
    [][\A rid \in RoomIds :
          LET r == rooms[rid]
              r2 == rooms'[rid]
          IN /\ r2.exists => Len(r2.players) <= r2.maxPlayers
             /\ r.exists /\ r.gameStarted => Len(r2.players) <= Len(r.players)]_vars

\* C22: after every game over, reached by a round resolution or by a swap, every bot seat is
\* rematch-ready; and once every human seat of a finished game has asked for a rematch, the
\* delayed start of the next game is pending: no further command is needed.
C22_RematchStarts ==
    [][\A rid \in RoomIds :
          LET r == rooms[rid]
              r2 == rooms'[rid]
              ready(p) == p.rematchReady
          IN /\ r.gameStarted /\ ~r2.gameStarted /\ r2.exists =>
                    \A k \in 1..Len(r2.players) : r2.players[k].isBot => r2.players[k].rematchReady
             /\ (/\ r2.exists /\ ~r2.gameStarted /\ r2.gameNumber > 0
                 /\ Len(r2.players) >= MIN_PLAYERS
                 /\ Len(Humans(r2.players)) > 0
                 /\ \A k \in 1..Len(r2.players) :
                        ~r2.players[k].isBot => r2.players[k].rematchReady)
                 => Len(Pending("rematch", rid)') >= 1]_vars

\* the hands of the seats, in seat order
Hands(r) == [k \in 1..Len(r.players) |-> r.players[k].hand]

\* C23: when a round of a running game is resolved and no card on the table is off the lead
\* suit, the table's cards go to the discard pile, which grows by exactly the table's cards,
\* and no hand changes.
C23_CleanResolution ==
    [][\A rid \in RoomIds :
          LET r == rooms[rid]
              r2 == rooms'[rid]
          IN (/\ FireResolve /\ Head(timers).rid = rid /\ Running(r)
              /\ \A k \in 1..Len(r.table) : r.table[k].card.suit = r.currentSuit)
             => /\ r2.discarded = r.discarded \o TableCards(r.table)
                /\ Hands(r2) = Hands(r)]_vars

\* the card follows the fallback policy for the seat with this hand
FollowsPolicy(r, hand, card) ==
    LET held == {hand[i] : i \in 1..Len(hand)}
        lead == {c \in held : c.suit = r.currentSuit}
    IN IF r.isFirstMove THEN (KingOfSpades \in held => card = KingOfSpades)
       ELSE IF lead # {} THEN card \in lead /\ \A c \in lead : c.val <= card.val
       ELSE card \in held /\ \A c \in held : card.val <= c.val

\* C24: when the turn countdown of a running game expires for a seat that holds cards, the
\* card chosen for it is the King of Spades if isFirstMove, otherwise the highest card of the
\* lead suit in the hand if there is one, otherwise the lowest card of the hand.
C24_TimerFallback ==
    [][\A rid \in RoomIds :
          LET r == rooms[rid]
              r2 == rooms'[rid]
          IN (/\ FireTurn /\ Head(timers).rid = rid /\ Running(r) /\ InRange(r.players, r.turn)
              /\ Len(r.players[r.turn + 1].hand) > 0)
             => LET p == r.players[r.turn + 1]
                IN /\ \A c \in awaiting' \ awaiting : FollowsPolicy(r, p.hand, c.card)
                   /\ Len(r2.table) > Len(r.table) =>
                          FollowsPolicy(r, p.hand, r2.table[Len(r2.table)].card)
                   /\ awaiting' # awaiting \/ Len(r2.table) > Len(r.table)]_vars

\* the first seat after seat `from`, in turn order, that holds cards
NextWithCards(players, from, to) ==
    \E k \in 1..Len(players) :
        /\ to = (from + k) % Len(players)
        /\ Len(players[to + 1].hand) > 0
        /\ \A j \in 1..(k - 1) : Len(players[((from + j) % Len(players)) + 1].hand) = 0

C26_AfterResolution ==
    [][\A rid \in RoomIds :
          LET r == rooms[rid]
              r2 == rooms'[rid]
              lead == {k \in 1..Len(r.table) : r.table[k].card.suit = r.currentSuit}
          IN FireResolve /\ Head(timers).rid = rid /\ Running(r) /\ Running(r2) =>
                 /\ r2.table = <<>> /\ r2.currentSuit = NoSuit /\ ~r2.resolving
                 /\ \E k \in lead :
                        /\ \A j \in lead : r.table[j].card.val <= r.table[k].card.val
                        /\ r2.turn = r.table[k].playerIdx]_vars

\* C27: whenever the table is not empty the lead suit is the suit of its first card; so every
\* resolution finds a table card of the lead suit and never falls back to the first entry.
C27_LeadSuitOnTable ==
    [][\A rid \in RoomIds :
          LET r == rooms[rid]
              r2 == rooms'[rid]
          IN /\ Len(r2.table) > 0 => r2.currentSuit = r2.table[1].card.suit
             /\ FireResolve /\ Head(timers).rid = rid /\ r.exists =>
                    WinnerIdx(r.table, r.currentSuit) # -1]_vars

\* C28: when a round with an off-suit card on the table is resolved, whichever path committed
\* the card, the room's AI memory holds afterwards that the seat that played it lacks the lead
\* suit; and a recorded fact stays in the memory until the next game starts.
C28_VoidSuitsRecorded ==
    [][\A rid \in RoomIds :
          LET r == rooms[rid]
              r2 == rooms'[rid]
          IN /\ FireResolve /\ Head(timers).rid = rid /\ Running(r) =>
                    \A k \in 1..Len(r.table) :
                        r.table[k].card.suit # r.currentSuit =>
                            <<r.table[k].playerIdx, r.currentSuit>> \in mem'[rid].knownVoidSuits
             /\ r2.gameNumber = r.gameNumber =>
                    mem[rid].knownVoidSuits \subseteq mem'[rid].knownVoidSuits]_vars

\* the request of identity u may be forwarded: the game runs, u is the seat at turn, and
\* seat t is the first seat after it, in turn order, that holds cards
MaySwap(r, u, t) ==
    /\ Running(r) /\ SeatOf(r, u) # -1 /\ SeatOf(r, u) = r.turn
    /\ t # r.turn /\ NextWithCards(r.players, r.turn, t)

\* C29: a swap request is forwarded, to the target or to the bot's auto-accept, only when the
\* game is started and the requester is the seat at turn, and its target is the first seat
\* after the requester in turn order that holds cards; any other request changes nothing.
C29_SwapRequestPrecondition ==
    [][\A rid \in RoomIds, u \in Users :
          LET r == rooms[rid]
              seats == 0..(Len(r.players) - 1)
          IN SendSwapRequest(rid, u) =>
                 IF \E t \in seats : MaySwap(r, u, t)
                 THEN \E t \in seats :
                          /\ MaySwap(r, u, t)
                          /\ last'.to = r.players[t + 1].userID
                          /\ IF r.players[t + 1].isBot
                             THEN /\ last'.op = "botSwapPending"
                                  /\ Len(Pending("swap", rid)') = Len(Pending("swap", rid)) + 1
                             ELSE /\ last'.op = "receiveSwapRequest"
                                  /\ Pending("swap", rid)' = Pending("swap", rid)
                          /\ rooms' = rooms
                 ELSE UNCHANGED <<rooms, timers, mem, awaiting, crashed, last>>]_vars

\* a request has been forwarded past a seat without cards: the target is not the seat next
\* to the requester
C29_Witness ==
    \E rid \in RoomIds :
        LET r == rooms[rid]
        IN /\ Running(r) /\ last.op \in {"botSwapPending", "receiveSwapRequest"}
           /\ InRange(r.players, r.turn)
           /\ SeatOf(r, last.to) # (r.turn + 1) % Len(r.players)
           /\ Len(r.players[((r.turn + 1) % Len(r.players)) + 1].hand) = 0

\* the head callback was scheduled for a room that has since been deleted: no room has the
\* id, or the room that has it now has not started a game and so has scheduled nothing
OfDeletedRoom(rid) ==
    /\ timers # <<>> /\ Head(timers).rid = rid
    /\ rid \in used
    /\ ~rooms[rid].exists \/ rooms[rid].gameNumber = 0

\* C30: once a room is deleted (closed, or left by its last human), a countdown, bot delay,
\* resolution or other delayed callback that was scheduled for it changes nothing when it
\* runs: no room, also not a new room created under the same id, no AI memory; it schedules
\* no further callback and leaves the process running.
C30_TeardownCancelsTimers ==
    [][\A rid \in RoomIds :
          /\ OfDeletedRoom(rid)
          /\ FireTurn \/ FireResolve \/ FireNext \/ FireBot \/ FireSwap \/ FireRematch
          => /\ UNCHANGED <<rooms, mem, awaiting, crashed>>
             /\ \A i \in 1..Len(timers') : \E j \in 2..Len(timers) :
                    timers'[i] = [timers[j] EXCEPT !.rem = @ - Head(timers).rem]]_vars

\* C31: within one game a seat whose hand is empty and whose identity is in finishOrder keeps
\* an empty hand and does not become the seat at turn.
C31_FinishedStaysFinished ==
    [][\A rid \in RoomIds :
          LET r == rooms[rid]
              r2 == rooms'[rid]
          IN Running(r) /\ Running(r2) /\ r2.gameNumber = r.gameNumber =>
                 \A k \in 1..Len(r.players) :
                     (/\ Len(r.players[k].hand) = 0
                      /\ Includes(r.finishOrder, r.players[k].userID)
                      /\ k <= Len(r2.players) /\ r2.players[k].userID = r.players[k].userID)
                     => /\ Len(r2.players[k].hand) = 0
                        /\ r2.turn = k - 1 => r.turn = k - 1]_vars

\* the identities of the seats, in seat order
Seating(r) == [k \in 1..Len(r.players) |-> r.players[k].userID]

\* C32: while a game runs the ordered list of seated players does not change: no seat is
\* added, removed or moved, so a stored seat index keeps denoting the same player.
C32_SeatingFixed ==
    [][\A rid \in RoomIds :
          LET r == rooms[rid]
              r2 == rooms'[rid]
          IN Running(r) /\ Running(r2) /\ r2.gameNumber = r.gameNumber =>
                 Seating(r2) = Seating(r)]_vars

\* C33: whenever a game runs, no round is resolving and the seat at turn is a human holding
\* cards, the turn countdown is pending, or a callback or suspended handler that arms it or
\* plays the fallback card is; also after a swap request, accept or decline.
C33_StalledTurnAutoPlayed ==
    \A rid \in RoomIds :
        LET r == rooms[rid]
        IN (/\ Running(r) /\ ~r.resolving /\ ~crashed /\ InRange(r.players, r.turn)
            /\ ~r.players[r.turn + 1].isBot /\ Len(r.players[r.turn + 1].hand) > 0)
           => \/ Len(Pending("turn", rid)) = 1
              \/ Len(Pending("next", rid)) + Len(Pending("swap", rid)) >= 1
              \/ \E c \in awaiting : c.rid = rid

\* C34: at every game over exactly one seat holds cards, that seat is the last entry of
\* finishOrder (the reported loser), and finishOrder is a permutation of the seated identities.
C34_OneLoserFullOrder ==
    [][\A rid \in RoomIds :
          LET r == rooms[rid]
              r2 == rooms'[rid]
              surv == Survivors(r2.players)
              fin == r2.finishOrder
          IN Running(r) /\ r2.exists /\ ~r2.gameStarted =>
                 /\ Len(surv) = 1
                 /\ Len(fin) = Len(r2.players)
                 /\ fin[Len(fin)] = surv[1].userID
                 /\ \A k \in 1..Len(r2.players) : Includes(fin, r2.players[k].userID)]_vars

\* C35: a card put on the table when a bot's delay ends, when the turn countdown expires or
\* when the auto-play handler resumes is in the hand of the seat at turn and is played for that
\* seat; it is the King of Spades if isFirstMove, and it is of the lead suit if the table is
\* not empty and the seat holds a card of the lead suit.
C35_AutomatedPlayLegal ==
    [][\A rid \in RoomIds :
          LET r == rooms[rid]
              r2 == rooms'[rid]
          IN (/\ FireBot \/ FireTurn \/ \E c \in awaiting : AutoPlayDone(c)
              /\ r.exists /\ r2.exists /\ Len(r2.table) = Len(r.table) + 1)
             => LET e == r2.table[Len(r2.table)]
                IN /\ e.playerIdx = r.turn
                   /\ Holds(r.players[r.turn + 1], e.card)
                   /\ r.isFirstMove => e.card = KingOfSpades
                   /\ Len(r.table) > 0 /\ HoldsSuit(r.players[r.turn + 1], r.currentSuit)
                          => e.card.suit = r.currentSuit]_vars

\* C36: no seat has more than one card on the table.
C36_OneCardPerSeat ==
    \A rid \in RoomIds :
        LET table == rooms[rid].table
        IN \A i, j \in 1..Len(table) : table[i].playerIdx = table[j].playerIdx => i = j

\* C37: right after every start of a game (startGame or the delayed rematch start) the table
\* is empty, the lead suit is null, resolving is false, and finishOrder and the discard pile
\* are empty.
C37_CleanStart ==
    [][\A rid \in RoomIds :
          LET r == rooms[rid]
              r2 == rooms'[rid]
          IN r.exists /\ r2.exists /\ r2.gameNumber = r.gameNumber + 1 =>
                 /\ r2.table = <<>> /\ r2.currentSuit = NoSuit /\ ~r2.resolving
                 /\ r2.finishOrder = <<>> /\ r2.discarded = <<>>]_vars

\* C38: hands are transferred by acceptSwap or by a bot's delayed acceptance only in a running
\* game, to the seat at turn, from a different seat, and that seat is the one a swap request
\* of the seat at turn goes to.
C38_AbsorbOnlyOnRequest ==
    [][\A rid \in RoomIds :
          LET r == rooms[rid]
              r2 == rooms'[rid]
              moved == r.exists /\ r2.exists /\ Hands(r2) # Hands(r)
              Valid(req, acc) == /\ r.gameStarted /\ req = r.turn /\ acc # req
                                 /\ acc = SwapTarget(r, req)
          IN /\ \A a, b \in Users \cup BotIds(rid) :
                    AcceptSwap(rid, a, b) /\ moved => Valid(SeatOf(r, a), SeatOf(r, b))
             /\ FireSwap /\ Head(timers).rid = rid /\ moved =>
                    Valid(Head(timers).idx, SeatOf(r, Head(timers).bot))]_vars

\* C39: once a game is over, and until the next game is started, no card is put on the table,
\* no hand changes, and finishOrder, which every declaration of game over with a survivor
\* appends to, stays as it is.
C39_GameOverOnce ==
    [][\A rid \in RoomIds :
          LET r == rooms[rid]
              r2 == rooms'[rid]
          IN (/\ r.exists /\ r2.exists /\ ~r.gameStarted /\ r.gameNumber >= 1
              /\ r2.gameNumber = r.gameNumber /\ Seating(r2) = Seating(r))
             => /\ r2.table = r.table
                /\ Hands(r2) = Hands(r)
                /\ r2.finishOrder = r.finishOrder]_vars

\* C40: a game is started, and the deck dealt, only in a room where no game is running, so
\* that gameNumber grows by exactly one from one game over to the next.
C40_OneStartPerRematch ==
    [][\A rid \in RoomIds :
          LET r == rooms[rid]
              r2 == rooms'[rid]
          IN r.exists /\ r2.exists /\ r2.gameNumber # r.gameNumber =>
                 ~r.gameStarted /\ r2.gameNumber = r.gameNumber + 1]_vars

====
